---- MODULE Spec2Model ----
(***************************************************************************)
(* Model of the package converter (src/converter.go): a registry of       *)
(* currencies, the exchange-rate calculation CalculateRate and the quote   *)
(* builder NewQuote.                                                        *)
(*                                                                         *)
(* An ISO code is a sequence of one-character strings, so that upper-      *)
(* casing and case folding are computed rune by rune.  A decimal is the    *)
(* pair [value, exp] of github.com/shopspring/decimal, standing for        *)
(* value * 10^exp, with the library's Add, Mul, Div and RoundCeil.  A      *)
(* pointer is a sequence of length 0 (nil) or 1.  An error is a record     *)
(* [kind, code]; kind "nil" is the nil error.                              *)
(***************************************************************************)
EXTENDS Integers, Sequences, FiniteSets, TLC

VARIABLES rateSource, call, ret

vars == <<rateSource, call, ret>>

(***************************************************************************)
(* Bounds of the model.                                                    *)
(***************************************************************************)
\* Longest source handed to NewCurrencies.
MaxCurrencies == 3

\* Decimal places kept by Decimal.Div (decimal.DivisionPrecision, 16 in the
\* library; kept small here because TLC's integers are 32 bits wide).
DivisionPrecision == 2

\* Wall-clock readings time.Now() may return: 0..MaxTime.
MaxTime == 1

(***************************************************************************)
(* strings.ToUpper and strings.EqualFold on ASCII codes.                   *)
(***************************************************************************)
LowerRunes ==
    <<"a", "b", "c", "d", "e", "f", "g", "h", "i", "j", "k", "l", "m",
      "n", "o", "p", "q", "r", "s", "t", "u", "v", "w", "x", "y", "z">>

UpperRunes ==
    <<"A", "B", "C", "D", "E", "F", "G", "H", "I", "J", "K", "L", "M",
      "N", "O", "P", "Q", "R", "S", "T", "U", "V", "W", "X", "Y", "Z">>

\* unicode.ToUpper and unicode.ToLower restricted to ASCII: the letter at
\* the same position of the other alphabet.
UpperCase == [r \in {LowerRunes[i] : i \in 1..Len(LowerRunes)} |->
                 UpperRunes[CHOOSE i \in 1..Len(LowerRunes) : LowerRunes[i] = r]]

LowerCase == [r \in {UpperRunes[i] : i \in 1..Len(UpperRunes)} |->
                 LowerRunes[CHOOSE i \in 1..Len(UpperRunes) : UpperRunes[i] = r]]

ToUpperRune(r) == IF r \in DOMAIN UpperCase THEN UpperCase[r] ELSE r

RECURSIVE ToUpper(_)
ToUpper(s) ==
    IF s = <<>> THEN <<>> ELSE <<ToUpperRune(Head(s))>> \o ToUpper(Tail(s))

\* EqualFold's rune test: the runes are equal, or one is an upper-case ASCII
\* letter and the other is that letter in lower case.
EqualFoldRune(a, b) ==
    \/ a = b
    \/ a \in DOMAIN LowerCase /\ b = LowerCase[a]
    \/ b \in DOMAIN LowerCase /\ a = LowerCase[b]

EqualFold(s, t) ==
    /\ Len(s) = Len(t)
    /\ \A i \in 1..Len(s) : EqualFoldRune(s[i], t[i])

(***************************************************************************)
(* shopspring/decimal: value * 10^exp.                                     *)
(***************************************************************************)
RECURSIVE Pow10(_)
Pow10(n) == IF n <= 0 THEN 1 ELSE 10 * Pow10(n - 1)

Dec(v, e) == [value |-> v, exp |-> e]

\* decimal.Zero and decimal.NewFromInt(1)
Zero == Dec(0, 0)

One == Dec(1, 0)

Abs(n) == IF n < 0 THEN -n ELSE n

Sign(n) == IF n < 0 THEN -1 ELSE IF n > 0 THEN 1 ELSE 0

\* big.Int.Quo: the quotient truncated toward zero.
Quo(a, b) == Sign(a) * Sign(b) * (Abs(a) \div Abs(b))

Min(a, b) == IF a < b THEN a ELSE b

\* Decimal.rescale: the same number at exponent e, truncated toward zero
\* when e is coarser than d's exponent.
Rescale(d, e) ==
    IF d.exp = e THEN d
    ELSE IF d.exp > e THEN Dec(d.value * Pow10(d.exp - e), e)
    ELSE Dec(Quo(d.value, Pow10(e - d.exp)), e)

\* Decimal.Cmp: -1, 0 or 1.
Cmp(a, b) ==
    LET e == Min(a.exp, b.exp)
    IN  Sign(Rescale(a, e).value - Rescale(b, e).value)

DecAdd(a, b) ==
    LET e == Min(a.exp, b.exp)
    IN  Dec(Rescale(a, e).value + Rescale(b, e).value, e)

DecMul(a, b) == Dec(a.value * b.value, a.exp + b.exp)

\* Decimal.Div = DivRound(d2, DivisionPrecision): the quotient at
\* DivisionPrecision decimal places, rounded half away from zero.  The
\* caller has checked d2 /= 0 (the library panics otherwise).
DecDiv(d, d2) ==
    LET e  == d.exp - d2.exp + DivisionPrecision
        aa == IF e < 0 THEN d.value ELSE d.value * Pow10(e)
        bb == IF e < 0 THEN d2.value * Pow10(-e) ELSE d2.value
        q  == Quo(aa, bb)
        r  == aa - q * bb
    IN  IF 2 * Abs(r) < Abs(bb) THEN Dec(q, -DivisionPrecision)
        ELSE Dec(q + Sign(aa) * Sign(bb), -DivisionPrecision)

\* Decimal.RoundCeil: round toward positive infinity at `places` decimals.
RoundCeil(d, places) ==
    IF d.exp >= -places THEN d
    ELSE LET rescaled == Rescale(d, -places)
         IN  IF Cmp(d, rescaled) = 0 THEN d
             ELSE IF d.value > 0 THEN Dec(rescaled.value + 1, -places)
             ELSE rescaled

(***************************************************************************)
(* Errors (converter.go:15-19, 161).                                       *)
(***************************************************************************)
Err(kind, code) == [kind |-> kind, code |-> code]

NilErr == Err("nil", <<>>)

\* fmt.Errorf(ErrCurrencyNotFound, code): the message carries the code.
ErrCurrencyNotFound(code) == Err("currency not found", code)

ErrEmptyCurrencySource == Err("empty currency source", <<>>)

ErrBaseCurrencyNotFound == Err("base currency not found", <<>>)

\* errors.New("currency object empty. shouldnt be")
ErrCurrencyObjectEmpty == Err("currency object empty", <<>>)

\* The error json.Unmarshal returns for a source that is no currency list.
ErrUnmarshal == Err("json: cannot unmarshal", <<>>)

(***************************************************************************)
(* NewCurrencies: the source is marshalled to JSON and unmarshalled into   *)
(* []Currency.  A JSON object may lack any field; the field then keeps its *)
(* zero value.  Anything that is not an object fails the decoding.         *)
(***************************************************************************)
Currency(code, precision, buy, sell) ==
    [ISOCode |-> code, Precision |-> precision, BuyRate |-> buy, SellRate |-> sell]

Field(obj, name, zero) == IF name \in DOMAIN obj THEN obj[name] ELSE zero

DecodeCurrency(item) ==
    Currency(Field(item.obj, "isoCode", <<>>),
             Field(item.obj, "precision", 0),
             Field(item.obj, "buyRate", Zero),
             Field(item.obj, "sellRate", Zero))

NewCurrencies(sourceRates) ==
    IF \E i \in 1..Len(sourceRates) : sourceRates[i].kind # "object"
    THEN [ptr |-> <<>>, err |-> ErrUnmarshal]
    ELSE LET currencies == [i \in 1..Len(sourceRates) |-> DecodeCurrency(sourceRates[i])]
         IN  IF Len(currencies) = 0
             THEN [ptr |-> <<>>, err |-> ErrEmptyCurrencySource]
             ELSE [ptr |-> <<[currencies |-> currencies]>>, err |-> NilErr]

(***************************************************************************)
(* FindCurrency: the first record whose code equals `code` ignoring case.  *)
(* The result is the record's position (a pointer into the slice), 0 for   *)
(* nil.  The read lock is taken and released within the call and there is  *)
(* no writer, so the call is one step.                                     *)
(***************************************************************************)
\* Mutant of FindFrom: the codes are compared as they are written.
RECURSIVE FindFrom_CaseSensitive(_, _, _)
FindFrom_CaseSensitive(currencies, code, i) ==
    IF i > Len(currencies) THEN 0
    ELSE IF currencies[i].ISOCode = code THEN i
    ELSE FindFrom_CaseSensitive(currencies, code, i + 1)

RECURSIVE FindFrom(_, _, _)
FindFrom(currencies, code, i) ==
    IF i > Len(currencies) THEN 0
    ELSE IF EqualFold(currencies[i].ISOCode, code) THEN i
    ELSE FindFrom(currencies, code, i + 1)

\* Mutant of FindCurrency: no check for a registry without records.
FindCurrency_NoEmptyCheck(c, code) ==
    LET i == FindFrom(c.currencies, code, 1)
    IN  IF i > 0 THEN [idx |-> i, err |-> NilErr]
        ELSE [idx |-> 0, err |-> ErrCurrencyNotFound(code)]

FindCurrency(c, code) ==
    IF Len(c.currencies) = 0 THEN [idx |-> 0, err |-> ErrEmptyCurrencySource]
    ELSE LET i == FindFrom(c.currencies, code, 1)
         IN  IF i > 0 THEN [idx |-> i, err |-> NilErr]
             ELSE [idx |-> 0, err |-> ErrCurrencyNotFound(code)]

(***************************************************************************)
(* CalculateRate.  The result records, besides the rate and the error,     *)
(* the codes looked up (in order) and whether the call panicked: Decimal   *)
(* division by zero panics.                                                *)
(***************************************************************************)
RateResult(rate, err, lookups) ==
    [panicked |-> FALSE, rate |-> rate, err |-> err, lookups |-> lookups]

RatePanic(lookups) ==
    [panicked |-> TRUE, rate |-> Zero, err |-> NilErr, lookups |-> lookups]

\* Mutant of BaseCheck: the error of the lookup is passed on.
BaseCheck_Propagated(c, baseCurrency) == FindCurrency(c, baseCurrency).err

\* The base check: FindCurrency(baseCurrency) failing, whatever its error.
BaseCheck(c, baseCurrency) ==
    IF FindCurrency(c, baseCurrency).err # NilErr
    THEN ErrBaseCurrencyNotFound
    ELSE NilErr

\* Mutant of BaseToTarget: the buy rate is returned.
BaseToTarget_BuyRate(c, baseCurrency, to) ==
    LET toCurrency == FindCurrency(c, to)
        lookups    == <<baseCurrency, to>>
    IN  IF toCurrency.err # NilErr THEN RateResult(Zero, toCurrency.err, lookups)
        ELSE RateResult(c.currencies[toCurrency.idx].BuyRate, NilErr, lookups)

\* Base to target currency (sell rate).
BaseToTarget(c, baseCurrency, to) ==
    LET toCurrency == FindCurrency(c, to)
        lookups    == <<baseCurrency, to>>
    IN  IF toCurrency.err # NilErr THEN RateResult(Zero, toCurrency.err, lookups)
        ELSE RateResult(c.currencies[toCurrency.idx].SellRate, NilErr, lookups)

\* Target to base currency (buy rate).
TargetToBase(c, baseCurrency, from) ==
    LET fromCurrency == FindCurrency(c, from)
        lookups      == <<baseCurrency, from>>
    IN  IF fromCurrency.err # NilErr THEN RateResult(Zero, fromCurrency.err, lookups)
        ELSE IF c.currencies[fromCurrency.idx].BuyRate.value = 0 THEN RatePanic(lookups)
        ELSE RateResult(DecDiv(One, c.currencies[fromCurrency.idx].BuyRate),
                        NilErr, lookups)

\* Cross rate: (target to base) to target.
CrossRate(c, baseCurrency, from, to) ==
    LET fromCurrency == FindCurrency(c, from)
        toCurrency   == FindCurrency(c, to)
    IN  IF fromCurrency.err # NilErr
        THEN RateResult(Zero, fromCurrency.err, <<baseCurrency, from>>)
        ELSE IF toCurrency.err # NilErr
        THEN RateResult(Zero, toCurrency.err, <<baseCurrency, from, to>>)
        ELSE IF c.currencies[fromCurrency.idx].BuyRate.value = 0
        THEN RatePanic(<<baseCurrency, from, to>>)
        ELSE RateResult(DecMul(DecDiv(One, c.currencies[fromCurrency.idx].BuyRate),
                               c.currencies[toCurrency.idx].SellRate),
                        NilErr, <<baseCurrency, from, to>>)

\* Mutant of CalculateRate: the base is checked before from and to are
\* compared.
CalculateRate_BaseFirst(c, baseCurrency, from, to) ==
    LET b == ToUpper(ToUpper(baseCurrency))
        f == ToUpper(ToUpper(from))
        t == ToUpper(ToUpper(to))
    IN  IF BaseCheck(c, b) # NilErr
        THEN RateResult(Zero, BaseCheck(c, b), <<b>>)
        ELSE IF f = t THEN RateResult(One, NilErr, <<b>>)
        ELSE IF f = b THEN BaseToTarget(c, b, t)
        ELSE IF t = b THEN TargetToBase(c, b, f)
        ELSE CrossRate(c, b, f, t)

CalculateRate(c, baseCurrency, from, to) ==
    LET b == ToUpper(ToUpper(baseCurrency))
        f == ToUpper(ToUpper(from))
        t == ToUpper(ToUpper(to))
    IN  IF f = t THEN RateResult(One, NilErr, <<>>)
        ELSE IF BaseCheck(c, b) # NilErr
        THEN RateResult(Zero, BaseCheck(c, b), <<b>>)
        ELSE IF f = b THEN BaseToTarget(c, b, t)
        ELSE IF t = b THEN TargetToBase(c, b, f)
        ELSE CrossRate(c, b, f, t)

(***************************************************************************)
(* NewQuote.                                                               *)
(***************************************************************************)
QuoteResult(quote, err, lookups) ==
    [panicked |-> FALSE, quote |-> quote, err |-> err, lookups |-> lookups]

\* Mutant of AmountToDeduct: the fee is left out.
AmountToDeduct_NoFee(fromAmount, fee, infoFrom) ==
    RoundCeil(fromAmount, infoFrom.Precision)

AmountToDeduct(fromAmount, fee, infoFrom) ==
    RoundCeil(DecAdd(fromAmount, fee), infoFrom.Precision)

\* Mutant of FinalAmount: the product is cut, not rounded up.
FinalAmount_Truncated(fromAmount, rate, infoTo) ==
    Rescale(DecMul(fromAmount, rate), -infoTo.Precision)

FinalAmount(fromAmount, rate, infoTo) ==
    RoundCeil(DecMul(fromAmount, rate), infoTo.Precision)

NewQuote(rs, baseCurrency, fromCurrency, toCurrency, fromAmount, fee, now) ==
    IF rs = <<>> THEN QuoteResult(<<>>, ErrCurrencyObjectEmpty, <<>>)
    ELSE
    LET c        == rs[1]
        r        == CalculateRate(c, baseCurrency, fromCurrency, toCurrency)
        infoFrom == FindCurrency(c, fromCurrency)
        infoTo   == FindCurrency(c, toCurrency)
    IN  IF r.panicked
        THEN [panicked |-> TRUE, quote |-> <<>>, err |-> NilErr, lookups |-> r.lookups]
        ELSE IF r.err # NilErr THEN QuoteResult(<<>>, r.err, r.lookups)
        ELSE IF infoFrom.err # NilErr
        THEN QuoteResult(<<>>, infoFrom.err, r.lookups \o <<fromCurrency>>)
        ELSE IF infoTo.err # NilErr
        THEN QuoteResult(<<>>, infoTo.err, r.lookups \o <<fromCurrency, toCurrency>>)
        ELSE QuoteResult(
               <<[BaseCurrency   |-> baseCurrency,
                  FromCurrency   |-> fromCurrency,
                  FromAmount     |-> fromAmount,
                  Fee            |-> fee,
                  AmountToDeduct |-> AmountToDeduct(fromAmount, fee,
                                                    c.currencies[infoFrom.idx]),
                  Rate           |-> r.rate,
                  ToCurrency     |-> toCurrency,
                  FinalAmount    |-> FinalAmount(fromAmount, r.rate,
                                                 c.currencies[infoTo.idx]),
                  Date           |-> now]>>,
               NilErr, r.lookups \o <<fromCurrency, toCurrency>>)

(***************************************************************************)
(* The values the caller draws its arguments from.                         *)
(***************************************************************************)
USD == <<"U", "S", "D">>

EUR == <<"E", "U", "R">>

JPY == <<"J", "P", "Y">>

ZZZ == <<"Z", "Z", "Z">>

\* The same codes in other cases.
LowerUSD == <<"u", "s", "d">>

LowerEUR == <<"e", "u", "r">>

MixedEUR == <<"e", "U", "r">>

LowerJPY == <<"j", "p", "y">>

Object(obj) == [kind |-> "object", obj |-> obj]

\* What a caller may put in a source: currencies with all four fields (one
\* with its code in lower case), a record with the code alone (a second
\* EUR, in lower case, whose precision and rates stay zero), and a value
\* that is no record.
SourceItems ==
    { Object([isoCode |-> USD, precision |-> 2,
              buyRate |-> Dec(1, 0), sellRate |-> Dec(1, 0)]),
      Object([isoCode |-> EUR, precision |-> 2,
              buyRate |-> Dec(7, -1), sellRate |-> Dec(12, -1)]),
      Object([isoCode |-> LowerJPY, precision |-> 1,
              buyRate |-> Dec(3, -1), sellRate |-> Dec(25, -1)]),
      Object([isoCode |-> LowerEUR]),
      [kind |-> "string", obj |-> [text |-> "invalid data"]] }

Sources == UNION { [1..n -> SourceItems] : n \in 0..MaxCurrencies }

\* Codes passed to FindCurrency and CalculateRate.
CallCodes == {USD, LowerUSD, MixedEUR, JPY, ZZZ}

\* Codes passed to NewQuote.
BaseCodes == {USD, ZZZ}

QuoteCodes == {USD, LowerUSD, EUR, JPY, ZZZ}

Amounts == {Dec(1055, -2), Dec(-3, 0)}

Fees == {Dec(5, -1), Dec(5, -3)}

Times == 0..MaxTime

(***************************************************************************)
(* The caller: it holds a registry pointer, nil until a registry is made   *)
(* (a registry is created once and then only read), makes one call at a    *)
(* time and collects the result before the next call.  A call that panics  *)
(* ends the process.                                                       *)
(***************************************************************************)
Call(op, code, base, from, to, amount, fee) ==
    [op |-> op, code |-> code, baseCurrency |-> base, from |-> from, to |-> to,
     fromAmount |-> amount, fee |-> fee]

NoCall == Call("none", <<>>, <<>>, <<>>, <<>>, Zero, Zero)

Ret(panicked, idx, rate, quote, err, lookups) ==
    [panicked |-> panicked, idx |-> idx, rate |-> rate, quote |-> quote,
     err |-> err, lookups |-> lookups]

NoRet == Ret(FALSE, 0, Zero, <<>>, NilErr, <<>>)

Init ==
    /\ rateSource = <<>>
    /\ call = NoCall
    /\ ret = NoRet

NewCurrenciesCall ==
    /\ call.op = "none"
    /\ rateSource = <<>>
    /\ \E sourceRates \in Sources :
          LET r == NewCurrencies(sourceRates)
          IN  /\ rateSource' = r.ptr
              /\ call' = Call("NewCurrencies", <<>>, <<>>, <<>>, <<>>, Zero, Zero)
              /\ ret' = Ret(FALSE, 0, Zero, <<>>, r.err, <<>>)

\* A Currencies value declared without NewCurrencies holds no records.
ZeroCurrencies ==
    /\ call.op = "none"
    /\ rateSource = <<>>
    /\ rateSource' = <<[currencies |-> <<>>]>>
    /\ UNCHANGED <<call, ret>>

FindCurrencyCall ==
    /\ call.op = "none"
    /\ rateSource # <<>>
    /\ \E code \in CallCodes :
          LET r == FindCurrency(rateSource[1], code)
          IN  /\ call' = Call("FindCurrency", code, <<>>, <<>>, <<>>, Zero, Zero)
              /\ ret' = Ret(FALSE, r.idx, Zero, <<>>, r.err, <<code>>)
    /\ UNCHANGED rateSource

CalculateRateCall ==
    /\ call.op = "none"
    /\ rateSource # <<>>
    /\ \E baseCurrency, from, to \in CallCodes :
          LET r == CalculateRate(rateSource[1], baseCurrency, from, to)
          IN  /\ call' = Call("CalculateRate", <<>>, baseCurrency, from, to, Zero, Zero)
              /\ ret' = Ret(r.panicked, 0, r.rate, <<>>, r.err, r.lookups)
    /\ UNCHANGED rateSource

NewQuoteCall ==
    /\ call.op = "none"
    /\ \E baseCurrency \in BaseCodes, from, to \in QuoteCodes,
          fromAmount \in Amounts, fee \in Fees, now \in Times :
          LET r == NewQuote(rateSource, baseCurrency, from, to, fromAmount, fee, now)
          IN  /\ call' = Call("NewQuote", <<>>, baseCurrency, from, to, fromAmount, fee)
              /\ ret' = Ret(r.panicked, 0, Zero, r.quote, r.err, r.lookups)
    /\ UNCHANGED rateSource

\* The caller has read the result and is ready for its next call.
Collect ==
    /\ call.op # "none"
    /\ ~ret.panicked
    /\ call' = NoCall
    /\ ret' = NoRet
    /\ UNCHANGED rateSource

Next ==
    \/ NewCurrenciesCall
    \/ ZeroCurrencies
    \/ FindCurrencyCall
    \/ CalculateRateCall
    \/ NewQuoteCall
    \/ Collect

Spec == Init /\ [][Next]_vars

(***************************************************************************)
(* Vocabulary of the properties, stated without the operators above:       *)
(* codes are compared in lower case, decimals as integers at a common      *)
(* exponent.                                                               *)
(***************************************************************************)
Registry == rateSource[1].currencies

RECURSIVE ToLower(_)
ToLower(s) ==
    IF s = <<>> THEN <<>>
    ELSE <<IF Head(s) \in DOMAIN LowerCase THEN LowerCase[Head(s)] ELSE Head(s)>>
         \o ToLower(Tail(s))

SameCode(a, b) == ToLower(a) = ToLower(b)

Present(code) ==
    /\ rateSource # <<>>
    /\ \E i \in 1..Len(Registry) : SameCode(Registry[i].ISOCode, code)

\* The first record, in registry order, with this code.
FirstOf(code) ==
    Registry[CHOOSE i \in 1..Len(Registry) :
                /\ SameCode(Registry[i].ISOCode, code)
                /\ \A j \in 1..(i - 1) : ~SameCode(Registry[j].ISOCode, code)]

\* d as an integer number of units 10^e, for e no greater than d.exp.
Scaled(d, e) == d.value * Pow10(d.exp - e)

Least(a, b, c) == Min(a, Min(b, c))

\* r is x rounded toward positive infinity to `places` decimal places:
\* a multiple of 10^-places, no less than x and less than one unit above.
IsCeil(r, x, places) ==
    LET e    == Least(r.exp, x.exp, -places)
        unit == Pow10(-places - e)
    IN  /\ Scaled(r, e) % unit = 0
        /\ Scaled(r, e) >= Scaled(x, e)
        /\ Scaled(r, e) - Scaled(x, e) < unit

\* a <= b as numbers.
Leq(a, b) == Scaled(a, Min(a.exp, b.exp)) <= Scaled(b, Min(a.exp, b.exp))

\* q is 1/d to DivisionPrecision decimal places (d /= 0, d.exp <= 0).
IsReciprocal(q, d) ==
    /\ d.value # 0
    /\ q.exp = -DivisionPrecision
    /\ 2 * Abs(q.value * d.value - Pow10(DivisionPrecision - d.exp)) <= Abs(d.value)

RateCall == call.op = "CalculateRate"

QuoteReturned == call.op = "NewQuote" /\ ret.quote # <<>>

(***************************************************************************)
(* C1.  CalculateRate returns exactly 1 and no error whenever from and to  *)
(* are equal ignoring case, for every registry (an empty one too) and      *)
(* every base, present or not, and it looks nothing up.                    *)
(***************************************************************************)
C1_IdentityBeforeBase ==
    (RateCall /\ SameCode(call.from, call.to)) =>
        /\ ~ret.panicked
        /\ ret.err = NilErr
        /\ ret.rate = One
        /\ ret.lookups = <<>>

\* from and to differ in case only, and neither they nor the base are in
\* the (non-empty) registry.
C1_Witness ==
    /\ RateCall
    /\ call.from # call.to /\ SameCode(call.from, call.to)
    /\ Len(Registry) > 0
    /\ ~Present(call.baseCurrency) /\ ~Present(call.from)
    /\ ret.rate = One /\ ret.err = NilErr

(***************************************************************************)
(* C4.  With base and target both in the registry and the target not the   *)
(* base, CalculateRate(B, B, T) succeeds and returns the SellRate of T     *)
(* (the first record with that code), unchanged.                           *)
(***************************************************************************)
C4_BaseToTargetSellRate ==
    (/\ RateCall
     /\ Present(call.baseCurrency) /\ Present(call.to)
     /\ SameCode(call.from, call.baseCurrency)
     /\ ~SameCode(call.to, call.baseCurrency)) =>
        /\ ~ret.panicked
        /\ ret.err = NilErr
        /\ ret.rate = FirstOf(call.to).SellRate

\* The target has two records with different rates, and from names the
\* base in another case.
C4_Witness ==
    /\ RateCall
    /\ Present(call.baseCurrency) /\ Present(call.to)
    /\ call.from # call.baseCurrency /\ SameCode(call.from, call.baseCurrency)
    /\ ~SameCode(call.to, call.baseCurrency)
    /\ \E i \in 1..Len(Registry) :
          /\ SameCode(Registry[i].ISOCode, call.to)
          /\ Registry[i].SellRate # FirstOf(call.to).SellRate
    /\ ret.rate = FirstOf(call.to).SellRate
    /\ ret.rate.value # 0

(***************************************************************************)
(* C5.  When from and to differ ignoring case and the base is not in the   *)
(* registry (absent, or the registry empty), CalculateRate fails with      *)
(* ErrBaseCurrencyNotFound and a zero rate, having looked up the base      *)
(* alone, whether or not from and to are present.                          *)
(***************************************************************************)
C5_MissingBase ==
    (/\ RateCall
     /\ ~SameCode(call.from, call.to)
     /\ ~Present(call.baseCurrency)) =>
        /\ ~ret.panicked
        /\ ret.err = ErrBaseCurrencyNotFound
        /\ ret.rate = Zero
        /\ Len(ret.lookups) = 1
        /\ SameCode(ret.lookups[1], call.baseCurrency)

\* The base is missing from a registry that holds both from and to.
C5_Witness ==
    /\ RateCall
    /\ ~SameCode(call.from, call.to)
    /\ ~Present(call.baseCurrency)
    /\ Present(call.from) /\ Present(call.to)
    /\ ret.err = ErrBaseCurrencyNotFound

(***************************************************************************)
(* C9.  FindCurrency compares codes ignoring case and returns the first    *)
(* matching record in registry order, the same record for a code written   *)
(* in any case; with no match in a non-empty registry it fails with the    *)
(* not-found error carrying exactly the code passed in; on a registry with *)
(* no records it fails with ErrEmptyCurrencySource for every code.         *)
(***************************************************************************)
C9_FindCurrency ==
    call.op = "FindCurrency" =>
        /\ ~ret.panicked
        /\ IF Len(Registry) = 0
           THEN ret.idx = 0 /\ ret.err = ErrEmptyCurrencySource
           ELSE IF Present(call.code)
           THEN /\ ret.err = NilErr
                /\ ret.idx \in 1..Len(Registry)
                /\ Registry[ret.idx] = FirstOf(call.code)
                /\ \A j \in 1..(ret.idx - 1) :
                      ~SameCode(Registry[j].ISOCode, call.code)
           ELSE /\ ret.idx = 0
                /\ ret.err = [kind |-> "currency not found", code |-> call.code]
        /\ \A other \in CallCodes :
              SameCode(other, call.code) =>
                  FindCurrency(rateSource[1], other).idx = ret.idx

\* A code written in another case than the registry's, matching the
\* second and the third record: the second is returned.
C9_Witness ==
    /\ call.op = "FindCurrency"
    /\ Len(Registry) = 3
    /\ ret.idx = 2 /\ ret.err = NilErr
    /\ Registry[2].ISOCode # call.code
    /\ SameCode(Registry[3].ISOCode, call.code)
    /\ Registry[3] # Registry[2]

(***************************************************************************)
(* C8.  Every quote NewQuote returns has AmountToDeduct = amount + fee     *)
(* rounded toward positive infinity at the from currency's precision,      *)
(* FinalAmount = amount * rate rounded toward positive infinity at the to  *)
(* currency's precision (a value exact at that precision is unchanged),    *)
(* and Rate = what CalculateRate(base, from, to) returns on the registry.  *)
(***************************************************************************)
C8_QuoteAmounts ==
    QuoteReturned =>
        LET q    == ret.quote[1]
            sum  == Dec(Scaled(call.fromAmount, Min(call.fromAmount.exp, call.fee.exp))
                          + Scaled(call.fee, Min(call.fromAmount.exp, call.fee.exp)),
                        Min(call.fromAmount.exp, call.fee.exp))
            rate == CalculateRate(rateSource[1], call.baseCurrency,
                                  call.from, call.to).rate
            prod == Dec(call.fromAmount.value * rate.value,
                        call.fromAmount.exp + rate.exp)
        IN  /\ q.Rate = rate
            /\ IsCeil(q.AmountToDeduct, sum, FirstOf(call.from).Precision)
            /\ IsCeil(q.FinalAmount, prod, FirstOf(call.to).Precision)
            /\ q.FromAmount = call.fromAmount /\ q.Fee = call.fee

\* A cross-rate quote whose two amounts are both rounded, at different
\* precisions.
C8_Witness ==
    /\ QuoteReturned
    /\ ~SameCode(call.from, call.to)
    /\ ~SameCode(call.from, call.baseCurrency)
    /\ ~SameCode(call.to, call.baseCurrency)
    /\ FirstOf(call.from).Precision # FirstOf(call.to).Precision
    /\ ~Leq(ret.quote[1].AmountToDeduct, DecAdd(call.fromAmount, call.fee))
    /\ ~Leq(ret.quote[1].FinalAmount, DecMul(call.fromAmount, ret.quote[1].Rate))

(***************************************************************************)
(* C7.  As claimed: for every quote the operator never collects less than  *)
(* computed (AmountToDeduct >= amount + fee) and the customer never        *)
(* receives more than computed (FinalAmount <= amount * rate).             *)
(***************************************************************************)
C7_NeverReceivesMore ==
    QuoteReturned =>
        /\ Leq(DecAdd(call.fromAmount, call.fee), ret.quote[1].AmountToDeduct)
        /\ Leq(ret.quote[1].FinalAmount,
               DecMul(call.fromAmount, ret.quote[1].Rate))

(***************************************************************************)
(* C7, amended.  For every quote AmountToDeduct >= amount + fee and        *)
(* FinalAmount >= amount * rate: both amounts are rounded toward positive  *)
(* infinity, so the customer never receives less than computed.            *)
(***************************************************************************)
C7_BothRoundedUp ==
    QuoteReturned =>
        /\ Leq(DecAdd(call.fromAmount, call.fee), ret.quote[1].AmountToDeduct)
        /\ Leq(DecMul(call.fromAmount, ret.quote[1].Rate),
               ret.quote[1].FinalAmount)

\* A quote whose FinalAmount is strictly more than amount * rate.
C7_Witness ==
    /\ QuoteReturned
    /\ call.fromAmount.value > 0
    /\ ~Leq(ret.quote[1].FinalAmount, DecMul(call.fromAmount, ret.quote[1].Rate))

(***************************************************************************)
(* C10.  What NewQuote returns.  The parts the claim and its amendment     *)
(* share: exactly one of a quote and an error is returned; a quote is      *)
(* returned only with a registry that holds from and to; with no registry  *)
(* an error and no quote; an error of CalculateRate is returned as it is.  *)
(***************************************************************************)
QuoteCall == call.op = "NewQuote" /\ ~ret.panicked

RateOfCall ==
    CalculateRate(rateSource[1], call.baseCurrency, call.from, call.to)

\* CalculateRate succeeded and the from or the to currency is missing.
LookupFails ==
    /\ QuoteCall
    /\ rateSource # <<>>
    /\ RateOfCall.err = NilErr
    /\ ~Present(call.from) \/ ~Present(call.to)

FirstMissing == IF ~Present(call.from) THEN call.from ELSE call.to

QuoteOrError ==
    QuoteCall =>
        /\ (ret.quote = <<>>) # (ret.err = NilErr)
        /\ Len(ret.quote) <= 1
        /\ ret.quote # <<>> =>
              rateSource # <<>> /\ Present(call.from) /\ Present(call.to)
        /\ rateSource = <<>> =>
              ret.quote = <<>> /\ ret.err = ErrCurrencyObjectEmpty
        /\ (rateSource # <<>> /\ RateOfCall.err # NilErr) =>
              ret.quote = <<>> /\ ret.err = RateOfCall.err

C6_NoCallAborts ==
    (/\ call.op \in {"CalculateRate", "NewQuote"}
     /\ rateSource # <<>>
     /\ Len(Registry) > 0) =>
        ~ret.panicked

(***************************************************************************)
(* C2.  With base B and source F both in the registry and F not B,         *)
(* CalculateRate(B, F, B) succeeds and returns 1 / F.BuyRate (to the       *)
(* precision of the division), F being the first record with that code.    *)
(***************************************************************************)
C2_TargetToBaseBuyRate ==
    (/\ RateCall
     /\ Present(call.baseCurrency) /\ Present(call.from)
     /\ ~SameCode(call.from, call.baseCurrency)
     /\ SameCode(call.to, call.baseCurrency)) =>
        /\ ~ret.panicked
        /\ ret.err = NilErr
        /\ IsReciprocal(ret.rate, FirstOf(call.from).BuyRate)

(***************************************************************************)
(* C3.  With B, F and T in the registry and pairwise different,            *)
(* CalculateRate(B, F, T) succeeds and returns (1 / F.BuyRate) *           *)
(* T.SellRate, the product of CalculateRate(B, F, B) and                   *)
(* CalculateRate(B, B, T).                                                 *)
(***************************************************************************)
C3_CrossRate ==
    (/\ RateCall
     /\ Present(call.baseCurrency) /\ Present(call.from) /\ Present(call.to)
     /\ ~SameCode(call.from, call.to)
     /\ ~SameCode(call.from, call.baseCurrency)
     /\ ~SameCode(call.to, call.baseCurrency)) =>
        LET toBase   == CalculateRate(rateSource[1], call.baseCurrency,
                                      call.from, call.baseCurrency)
            fromBase == CalculateRate(rateSource[1], call.baseCurrency,
                                      call.baseCurrency, call.to)
        IN  /\ ~ret.panicked
            /\ ret.err = NilErr
            /\ ~toBase.panicked /\ toBase.err = NilErr /\ fromBase.err = NilErr
            /\ IsReciprocal(toBase.rate, FirstOf(call.from).BuyRate)
            /\ fromBase.rate = FirstOf(call.to).SellRate
            /\ ret.rate.value = toBase.rate.value * fromBase.rate.value
            /\ ret.rate.exp = toBase.rate.exp + fromBase.rate.exp

====
